---- MODULE Spec2Model ----
(***************************************************************************)
(* The remote-build command of snapcraft (snapcraft/commands/remote.py):   *)
(* validation of the request, resolution of the architectures to build     *)
(* for, and the lifecycle that submits or resumes a remote build, monitors *)
(* it, retrieves logs and artifacts and decides on cleanup.                *)
(*                                                                         *)
(* One behaviour of the model is one invocation of RemoteBuildCommand._run.*)
(* The Build Farm Client (self._services.remote_build) and the operator    *)
(* are the environment: every result, error, timeout, interrupt and prompt *)
(* answer they can produce is a nondeterministic choice.                   *)
(***************************************************************************)
EXTENDS Integers, Sequences, FiniteSets, TLC

----------------------------------------------------------------------------
(* Bounds of the model *)

\* longest declared build plan
MaxPlan == 2
\* longest --build-for list given to validation and resolution alone
MaxFilter == 2
\* longest --build-for list of a whole run
MaxRunFilter == 1
\* longest build plan given to validation alone
MaxLongPlan == 4
\* most runs of the command on one machine, one after the other
MaxRuns == 2
\* most snapshots monitor_builds yields in one run
MaxTicks == 2
\* most artifacts fetch_artifacts returns
MaxArtifacts == 1

----------------------------------------------------------------------------
(* Program constants *)

EX_OK == 0
GENERAL_ERROR == 1
EX_TEMPFAIL == 75
EX_NOPERM == 77
EX_CONFIG == 78

\* snapcraft.const.SUPPORTED_ARCHS, cut down to two architectures
SUPPORTED_ARCHS == {"amd64", "arm64"}

\* what an entry of --build-for can be: a supported architecture, the
\* sentinel "all", or a name the catalog does not hold
Entries == {"amd64", "arm64", "all", "mips", "sparc"}

\* the entries of --build-for of a whole run: a supported name or an unsupported one
RunEntries == {"amd64", "mips"}

\* DebianArchitecture.from_host()
HostArch == "amd64"

\* craft_application.launchpad.models.BuildState, one value per kind
BuildState == {"PENDING", "UPLOADING", "RUNNING", "SUCCESS", "FAILED", "CANCELLED"}

\* a BuildInfo of the build plan
BuildInfo == [build_on : SUPPORTED_ARCHS, build_for : SUPPORTED_ARCHS]

\* the targets of the plan of a whole run: each architecture built on itself
RunBuildInfo == {b \in BuildInfo : b.build_on = b.build_for}

SeqsUpTo(S, n) == UNION {[1..k -> S] : k \in 0..n}

Range(s) == {s[i] : i \in 1..Len(s)}

\* self._app.name
AppName == "snapcraft"

\* the values of --build-id: absent, or an id of some other session
BuildIdArgs == {<<>>, <<"snapcraft", "other", "/work/other">>}

\* the operations of the Build Farm Client the lifecycle drives
ClientOps == {"start_builds", "resume_builds", "monitor_builds", "fetch_logs",
              "fetch_artifacts", "cancel_builds", "cleanup"}

----------------------------------------------------------------------------
VARIABLES
    \* parsed_args and the project
    recover,            \* --recover
    accept_public,      \* --launchpad-accept-public-upload
    project,            \* --project given
    declares,           \* project.platforms or project._architectures_in_yaml
    build_plan,         \* self.build_plan
    build_fors,         \* parsed_args.remote_build_build_fors (<<>> when not given)
    \* what the environment answered to _validate ("unasked", "yes", "no")
    is_private,         \* builder.is_project_private()
    confirmed,          \* confirm_with_user(_CONFIRMATION_PROMPT)
    build_id_arg,       \* --build-id (an empty tuple when absent)
    project_name,       \* self.project.name
    project_dir,        \* the resolved project directory
    \* the run
    pc,                 \* where _run is
    archs,              \* the result of _get_archs
    calls,              \* the client operations invoked so far, in order
    states,             \* the loop variable of the monitoring loop
    ticks,              \* snapshots yielded so far
    failed_seen,        \* some earlier snapshot held a FAILED architecture
    buckets,            \* the five sets the loop body fills from the snapshot
    progress_parts,     \* progress_parts of the last progress line
    emitted,            \* progress lines emitted by the loop so far
    return_code,        \* return_code of _monitor_and_complete
    logs,               \* what fetch_logs returned
    artifacts,          \* what fetch_artifacts returned
    event,              \* the exceptional event that ended the run, or NoEvent
    outcome,            \* "running", "returned" or "raised"
    returncode,         \* the exit code _run returned (when outcome = "returned")
    raised,             \* the error that left _run (when outcome = "raised")
    \* the session
    build_id,           \* build_id of _run (an empty tuple before it is set)
    resumed_with,       \* the id given to resume_builds
    resume_command,     \* the resume instruction printed on a timeout
    \* earlier runs of the command
    runs,               \* how many times the command was started
    earlier             \* project, id and resume instruction of the run before

args == <<recover, accept_public, project, declares, build_plan, build_fors,
          build_id_arg, project_name, project_dir>>
answers == <<is_private, confirmed>>
monitoring == <<states, ticks, failed_seen, buckets, progress_parts, emitted>>
retrieval == <<return_code, logs, artifacts>>
result == <<event, outcome, returncode, raised>>
session == <<build_id, resumed_with, resume_command>>
history == <<runs, earlier>>
vars == <<args, answers, pc, archs, calls, monitoring, retrieval, result,
          session, history>>

\* nothing was raised
NoError == [type |-> "none"]

\* an exceptional event: the type of what was raised and the call raising it
NoEvent == [type |-> "none", at |-> "none"]

\* _run is entered: any arguments, any project
\* the five sets before the first snapshot
NoBuckets ==
    [not_building |-> {}, building |-> {}, uploading |-> {}, succeeded |-> {},
     pending |-> {}]

\* no resume instruction was printed
NoCommand == [recover |-> FALSE, build_id |-> <<>>]

\* there is no run before the first one
NoEarlierRun ==
    [name |-> "", dir |-> "", build_id |-> <<>>, resume_command |-> NoCommand]

\* what a run starts from, whatever its arguments
Fresh ==
    /\ is_private = "unasked"
    /\ confirmed = "unasked"
    /\ pc = "validate"
    /\ archs = <<>>
    /\ calls = <<>>
    /\ states = <<>>
    /\ ticks = 0
    /\ failed_seen = FALSE
    /\ buckets = NoBuckets
    /\ progress_parts = <<>>
    /\ emitted = 0
    /\ return_code = 0
    /\ logs = <<>>
    /\ artifacts = <<>>
    /\ event = NoEvent
    /\ outcome = "running"
    /\ returncode = 0
    /\ raised = NoError
    /\ build_id = <<>>
    /\ resumed_with = <<>>
    /\ resume_command = NoCommand

Entered(entries, longest_filter, targets, longest_plan) ==
    /\ recover \in BOOLEAN
    /\ accept_public \in BOOLEAN
    /\ project \in BOOLEAN
    /\ declares \in BOOLEAN
    /\ build_plan \in SeqsUpTo(targets, longest_plan)
    /\ build_fors \in SeqsUpTo(entries, longest_filter)
    /\ build_id_arg = <<>>
    /\ project_name = "hello"
    /\ project_dir = "/work/hello"
    /\ Fresh
    /\ runs = 1
    /\ earlier = NoEarlierRun

Init == Entered(RunEntries, MaxRunFilter, RunBuildInfo, MaxPlan)

----------------------------------------------------------------------------
(* _validate: the pre-build validation *)

\* the error _validate raises when the public upload is not acknowledged
NotAcknowledged ==
    [type |-> "RemoteBuildError", retcode |-> EX_NOPERM, names |-> <<>>]

\* must_refuse trusting any given project, private or not
must_refuse_any_project(accept, proj, priv, answer) ==
    ~accept /\ ~proj /\ ~answer

\* the condition of the first `if` of _validate, with the answers the
\* short-circuit evaluation asked for
must_refuse(accept, proj, priv, answer) ==
    /\ ~accept
    /\ (~proj \/ ~priv)
    /\ ~answer

\* unsupported without the catalog check
unsupported_none(fors) == <<>>

\* the entries of --build-for the catalog check rejects, in order
unsupported(fors) ==
    SelectSeq(fors, LAMBDA b : b \notin (SUPPORTED_ARCHS \cup {"all"}))

\* UnsupportedArch naming the last rejected entry instead of the first
UnsupportedArch_last(fors) ==
    [type |-> "RemoteBuildError", retcode |-> EX_CONFIG,
     names |-> <<unsupported(fors)[Len(unsupported(fors))]>>,
     supported |-> SUPPORTED_ARCHS]

\* the error the catalog check raises: it names the first rejected entry
\* and lists SUPPORTED_ARCHS
UnsupportedArch(fors) ==
    [type |-> "RemoteBuildError", retcode |-> EX_CONFIG,
     names |-> <<Head(unsupported(fors))>>, supported |-> SUPPORTED_ARCHS]

\* the keys of build_map, in insertion order
RECURSIVE build_ons(_)
build_ons(plan) ==
    IF plan = <<>> THEN <<>>
    ELSE LET rest == build_ons(SubSeq(plan, 1, Len(plan) - 1))
             last == plan[Len(plan)].build_on
         IN IF last \in Range(rest) THEN rest ELSE Append(rest, last)

\* build_map[build_on]: the build-for of every BuildInfo on that build-on
RECURSIVE build_fors_on(_, _)
build_fors_on(plan, on) ==
    IF plan = <<>> THEN <<>>
    ELSE IF Head(plan).build_on = on
         THEN <<Head(plan).build_for>> \o build_fors_on(Tail(plan), on)
         ELSE build_fors_on(Tail(plan), on)

\* build_on_errors holding the first conflict only
build_on_errors_first(plan) ==
    LET ons == build_ons(plan)
        all == [i \in 1..Len(ons) |->
                   [build_on |-> ons[i], build_fors |-> build_fors_on(plan, ons[i])]]
        found == SelectSeq(all, LAMBDA e : Len(e.build_fors) > 1)
    IN SubSeq(found, 1, IF found = <<>> THEN 0 ELSE 1)

\* build_on_errors counting the different build-for values of a build-on
build_on_errors_distinct(plan) ==
    LET ons == build_ons(plan)
        all == [i \in 1..Len(ons) |->
                   [build_on |-> ons[i], build_fors |-> build_fors_on(plan, ons[i])]]
    IN SelectSeq(all, LAMBDA e : Cardinality(Range(e.build_fors)) > 1)

\* build_on_errors: one entry per build-on that gets more than one build-for
build_on_errors(plan) ==
    LET ons == build_ons(plan)
        all == [i \in 1..Len(ons) |->
                   [build_on |-> ons[i], build_fors |-> build_fors_on(plan, ons[i])]]
    IN SelectSeq(all, LAMBDA e : Len(e.build_fors) > 1)

\* the error _validate_single_artifact_per_build_on raises
MultipleArtifacts(plan) ==
    [type |-> "RemoteBuildError", retcode |-> EX_CONFIG,
     names |-> build_on_errors(plan)]

\* _run up to and including self._validate(parsed_args)
Validate ==
    /\ pc = "validate"
    /\ \E priv \in BOOLEAN, answer \in BOOLEAN :
        LET ask_private == ~accept_public /\ project
            ask_user == ~accept_public /\ (~project \/ ~priv)
            error ==
                IF must_refuse(accept_public, project, priv, answer)
                THEN NotAcknowledged
                ELSE IF unsupported(build_fors) # <<>>
                THEN UnsupportedArch(build_fors)
                ELSE IF build_on_errors(build_plan) # <<>>
                THEN MultipleArtifacts(build_plan)
                ELSE NoError
        IN /\ is_private' = IF ask_private
                            THEN (IF priv THEN "yes" ELSE "no") ELSE "unasked"
           /\ confirmed' = IF ask_user
                           THEN (IF answer THEN "yes" ELSE "no") ELSE "unasked"
           /\ IF error = NoError
              THEN /\ pc' = "get_archs"
                   /\ UNCHANGED <<outcome, raised>>
              ELSE /\ pc' = "done"
                   /\ outcome' = "raised"
                   /\ raised' = error
    /\ UNCHANGED <<args, session, history, archs, calls, monitoring, retrieval,
                   event, returncode>>

----------------------------------------------------------------------------
(* _get_archs: the architectures to build for *)

\* filter_plan(self.build_plan, platform=None, build_for=build_for,
\* host_arch=None): the BuildInfos of the plan with that build-for
filter_plan(plan, build_for) ==
    SelectSeq(plan, LAMBDA info : info.build_for = build_for)

\* [info.build_for for info in plan]
build_for_list(plan) == [i \in 1..Len(plan) |-> plan[i].build_for]

\* the `for build_for in build_fors` loop of _get_archs, from the entries
\* still to visit and the archs accumulated so far; ok is FALSE when the
\* loop raised EmptyBuildPlanError
RECURSIVE filter_loop(_, _, _)
filter_loop(plan, fors, acc) ==
    IF fors = <<>> THEN [ok |-> TRUE, archs |-> acc]
    ELSE LET extended == acc \o build_for_list(filter_plan(plan, Head(fors)))
         IN IF extended = <<>>
            THEN [ok |-> FALSE, archs |-> <<>>]
            ELSE filter_loop(plan, Tail(fors), extended)

\* _get_archs taking --build-for verbatim whether or not the project
\* declares its targets
get_archs_verbatim(declared, plan, fors, host) ==
    IF fors # <<>>
    THEN [ok |-> TRUE, archs |-> fors]
    ELSE IF declared
         THEN [ok |-> TRUE, archs |-> build_for_list(plan)]
         ELSE [ok |-> TRUE, archs |-> <<host>>]

\* _get_archs filtering the plan whether or not the project declares its
\* targets
get_archs_filtering(declared, plan, fors, host) ==
    IF fors # <<>>
    THEN filter_loop(plan, fors, <<>>)
    ELSE IF declared
         THEN [ok |-> TRUE, archs |-> build_for_list(plan)]
         ELSE [ok |-> TRUE, archs |-> <<host>>]

\* _get_archs(build_fors)
get_archs(declared, plan, fors, host) ==
    IF declared
    THEN IF fors # <<>>
         THEN filter_loop(plan, fors, <<>>)
         ELSE [ok |-> TRUE, archs |-> build_for_list(plan)]
    ELSE IF fors # <<>>
         THEN [ok |-> TRUE, archs |-> fors]
         ELSE [ok |-> TRUE, archs |-> <<host>>]

\* craft_application.errors.EmptyBuildPlanError()
EmptyBuildPlanError == [type |-> "EmptyBuildPlanError"]

\* craft_application.remote.utils.get_build_id: the id is kept as the
\* arguments it is derived from
get_build_id(app_name, name, dir) == <<app_name, name, dir>>

\* archs = self._get_archs(parsed_args.remote_build_build_fors), then
\* build_id = get_build_id(self._app.name, self.project.name, project_dir)
GetArchs ==
    /\ pc = "get_archs"
    /\ LET r == get_archs(declares, build_plan, build_fors, HostArch)
       IN IF r.ok
          THEN /\ archs' = r.archs
               /\ build_id' = get_build_id(AppName, project_name, project_dir)
               /\ pc' = "submit"
               /\ UNCHANGED <<outcome, raised>>
          ELSE /\ pc' = "done"
               /\ outcome' = "raised"
               /\ raised' = EmptyBuildPlanError
               /\ UNCHANGED <<archs, build_id>>
    /\ UNCHANGED <<args, answers, history, calls, monitoring, retrieval, event,
                   returncode, resumed_with, resume_command>>

----------------------------------------------------------------------------
(* _run: submitting or resuming *)

\* an error of the client, as it leaves _run
Error(type) == [type |-> type]

\* the errors of start_builds the first except clause names
CaughtStartErrors == {"RemoteBuildError", "LaunchpadError"}

\* what else start_builds can raise besides lazr's Conflict: another
\* exception, or the operator's interrupt
OtherStartErrors == {"OtherError", "KeyboardInterrupt"}

\* on_start_error without the `except lazr.restfulclient.errors.Conflict`
\* clause
on_start_error_no_conflict_clause(type) ==
    IF type \in CaughtStartErrors
    THEN [cleanup |-> TRUE, reraise |-> TRUE]
    ELSE [cleanup |-> FALSE, reraise |-> TRUE]

\* on_start_error with builder.cleanup() missing from the first except clause
on_start_error_no_cleanup(type) ==
    IF type \in CaughtStartErrors
    THEN [cleanup |-> FALSE, reraise |-> TRUE]
    ELSE IF type = "Conflict"
    THEN [cleanup |-> TRUE, reraise |-> FALSE]
    ELSE [cleanup |-> FALSE, reraise |-> TRUE]

\* the try statement around builder.start_builds: what it does with an
\* error of start_builds; cleanup is whether builder.cleanup() is called
on_start_error(type) ==
    IF type \in CaughtStartErrors
    THEN [cleanup |-> TRUE, reraise |-> TRUE]
    ELSE IF type = "Conflict"
    THEN [cleanup |-> TRUE, reraise |-> FALSE]
    ELSE [cleanup |-> FALSE, reraise |-> TRUE]

\* builder.resume_builds(build_id) returns
ResumeBuilds ==
    /\ pc = "submit"
    /\ recover
    /\ calls' = Append(calls, "resume_builds")
    /\ resumed_with' = build_id
    /\ pc' = "monitor_builds"
    /\ UNCHANGED <<args, answers, history, archs, monitoring, retrieval, result,
                   build_id, resume_command>>

\* ResumeFails cleaning up as a failure of start_builds does
ResumeFails_cleaning ==
    /\ pc = "submit"
    /\ recover
    /\ \E type \in CaughtStartErrors \cup OtherStartErrors :
        /\ event' = [type |-> type, at |-> "resume_builds"]
        /\ raised' = Error(type)
    /\ calls' = <<"resume_builds", "cleanup">>
    /\ resumed_with' = build_id
    /\ pc' = "done"
    /\ outcome' = "raised"
    /\ UNCHANGED <<args, answers, history, archs, monitoring, retrieval,
                   returncode, build_id, resume_command>>

\* builder.resume_builds(build_id) raises: nothing in _run catches it
ResumeFails ==
    /\ pc = "submit"
    /\ recover
    /\ \E type \in CaughtStartErrors \cup OtherStartErrors :
        /\ event' = [type |-> type, at |-> "resume_builds"]
        /\ raised' = Error(type)
    /\ calls' = Append(calls, "resume_builds")
    /\ resumed_with' = build_id
    /\ pc' = "done"
    /\ outcome' = "raised"
    /\ UNCHANGED <<args, answers, history, archs, monitoring, retrieval,
                   returncode, build_id, resume_command>>

\* StartBuilds whether or not --recover is given
StartBuilds_always ==
    /\ pc = "submit"
    /\ calls' = Append(calls, "start_builds")
    /\ pc' = "monitor_builds"
    /\ UNCHANGED <<args, answers, session, history, archs, monitoring, retrieval, result>>

\* builder.start_builds(project_dir, architectures=archs) returns
StartBuilds ==
    /\ pc = "submit"
    /\ ~recover
    /\ calls' = Append(calls, "start_builds")
    /\ pc' = "monitor_builds"
    /\ UNCHANGED <<args, answers, session, history, archs, monitoring, retrieval, result>>

\* builder.start_builds raises
StartFails ==
    /\ pc = "submit"
    /\ ~recover
    /\ \E type \in CaughtStartErrors \cup {"Conflict"} \cup OtherStartErrors :
        LET h == on_start_error(type)
        IN /\ event' = [type |-> type, at |-> "start_builds"]
           /\ calls' = calls \o <<"start_builds">>
                             \o (IF h.cleanup THEN <<"cleanup">> ELSE <<>>)
           /\ IF h.reraise
              THEN /\ outcome' = "raised"
                   /\ raised' = Error(type)
                   /\ UNCHANGED returncode
              ELSE /\ outcome' = "returned"
                   /\ returncode' = EX_TEMPFAIL
                   /\ UNCHANGED raised
    /\ pc' = "done"
    /\ UNCHANGED <<args, answers, session, history, archs, monitoring, retrieval>>

----------------------------------------------------------------------------
(* _monitor_and_complete, and what _run does with its result *)

\* the literal _monitor_and_complete returns on TimeoutError
TIMEOUT_CODE == 75

\* the architectures the remote session holds a build for
Builds == Range(archs)

\* what one tick of monitor_builds can yield
Snapshots == [Builds -> BuildState]

\* what fetch_logs can return: a log path, or None, per architecture;
\* or an empty mapping
LogResults == {<<>>} \cup [Builds -> {"path", "absent"}]

\* what fetch_artifacts can return
ArtifactResults == {[i \in 1..n |-> "snap"] : n \in 0..MaxArtifacts}

\* the `for arch, build_state in states.items()` loop after monitoring
failed_archs(st) == {a \in DOMAIN st : st[a] = "FAILED"}

\* code_of_states remembering a failure of an earlier snapshot
code_of_states_sticky(st) ==
    IF failed_archs(st) # {} \/ failed_seen THEN GENERAL_ERROR ELSE EX_OK

code_of_states(st) == IF failed_archs(st) # {} THEN GENERAL_ERROR ELSE EX_OK

\* `if not logs: return_code = 1`
code_after_logs(code, lg) == IF DOMAIN lg = {} THEN GENERAL_ERROR ELSE code

\* `if not artifacts: return_code = 1`
code_after_artifacts(code, arts) == IF Len(arts) = 0 THEN GENERAL_ERROR ELSE code

\* final_calls without the test of the return code
final_calls_always(code) == <<"cleanup">>

\* final_calls with the cleanup missing
final_calls_never(code) == <<>>

\* final_calls cancelling the builds before it cleans up
final_calls_cancelling(code) ==
    IF code # EX_TEMPFAIL THEN <<"cancel_builds", "cleanup">> ELSE <<>>

\* the end of _run: `if returncode != os.EX_TEMPFAIL: builder.cleanup()`
final_calls(code) == IF code # EX_TEMPFAIL THEN <<"cleanup">> ELSE <<>>

\* interrupt_calls with the cleanup after the cancellation missing
interrupt_calls_no_cleanup(answer) ==
    IF answer THEN <<"cancel_builds">> ELSE <<>>

\* interrupt_calls cleaning up before it cancels
interrupt_calls_cleanup_first(answer) ==
    IF answer THEN <<"cleanup", "cancel_builds">> ELSE <<>>

\* `except KeyboardInterrupt` of _run, by the answer to "Cancel builds?"
interrupt_calls(answer) ==
    IF answer THEN <<"cancel_builds", "cleanup">> ELSE <<>>

\* the errors `except Exception` of _run catches
MonitorErrors == {"RemoteBuildError", "OtherError"}

\* fetch_logs and fetch_artifacts are outside the try of the monitoring
\* loop: a TimeoutError of theirs is an error like any other
FetchErrors == MonitorErrors \cup {"TimeoutError"}

\* the call _monitor_and_complete is in or about to make
current_call == IF pc = "monitor" THEN "monitor_builds" ELSE pc

\* the calls made by the time an event interrupts the call at pc
calls_at_event == IF pc = "monitor" THEN calls ELSE Append(calls, pc)

\* _monitor_and_complete starts: builder.monitor_builds()
MonitorBuilds ==
    /\ pc = "monitor_builds"
    /\ calls' = Append(calls, "monitor_builds")
    /\ pc' = "monitor"
    /\ UNCHANGED <<args, answers, session, history, archs, monitoring, retrieval, result>>

\* BuildState.is_running
is_running(build_state) == build_state = "RUNNING"

\* bucket_of without the UPLOADING branch
bucket_of_no_uploading(build_state) ==
    IF is_running(build_state) THEN "building"
    ELSE IF build_state = "SUCCESS" THEN "succeeded"
    ELSE IF build_state = "PENDING" THEN "pending"
    ELSE "not_building"

\* the if/elif chain of the loop body: the set an architecture is added to
bucket_of(build_state) ==
    IF is_running(build_state) THEN "building"
    ELSE IF build_state = "SUCCESS" THEN "succeeded"
    ELSE IF build_state = "UPLOADING" THEN "uploading"
    ELSE IF build_state = "PENDING" THEN "pending"
    ELSE "not_building"

\* the five sets after the inner loop over states.items()
classify(st) ==
    [name \in {"not_building", "building", "uploading", "succeeded", "pending"} |->
        {arch \in DOMAIN st : bucket_of(st[arch]) = name}]

\* the architecture names in the order Python compares strings
ArchOrder == <<"all", "amd64", "arm64", "mips", "sparc">>

Position(arch) == CHOOSE i \in 1..Len(ArchOrder) : ArchOrder[i] = arch

\* sorted(bucket)
RECURSIVE sorted(_)
sorted(bucket) ==
    IF bucket = {} THEN <<>>
    ELSE LET first == CHOOSE a \in bucket :
                          \A b \in bucket : Position(a) <= Position(b)
         IN <<first>> \o sorted(bucket \ {first})

\* one `if bucket: progress_parts.append(label + sep.join(sorted(bucket)))`
progress_part(label, separator, bucket) ==
    IF bucket # {}
    THEN <<[label |-> label, separator |-> separator, archs |-> sorted(bucket)]>>
    ELSE <<>>

\* progress_parts_of with Succeeded before Uploading, the order the sets
\* are filled in
progress_parts_in_fill_order(b) ==
    progress_part("Stopped", ",", b.not_building)
    \o progress_part("Building", ", ", b.building)
    \o progress_part("Succeeded", ", ", b.succeeded)
    \o progress_part("Uploading", ",", b.uploading)
    \o progress_part("Pending", ", ", b.pending)

\* progress_parts when the line is emitted
progress_parts_of(b) ==
    progress_part("Stopped", ",", b.not_building)
    \o progress_part("Building", ", ", b.building)
    \o progress_part("Uploading", ",", b.uploading)
    \o progress_part("Succeeded", ", ", b.succeeded)
    \o progress_part("Pending", ", ", b.pending)

\* monitor_builds yields one snapshot: the loop body classifies it and
\* emits the progress line
Snapshot ==
    /\ pc = "monitor"
    /\ ticks < MaxTicks
    /\ states' \in Snapshots
    /\ ticks' = ticks + 1
    /\ buckets' = classify(states')
    /\ progress_parts' = progress_parts_of(classify(states'))
    /\ emitted' = emitted + 1
    /\ failed_seen' = (failed_seen \/ failed_archs(states) # {})
    /\ UNCHANGED <<args, answers, session, history, pc, archs, calls, retrieval, result>>

\* monitor_builds is exhausted: the loop ends and the states are judged
MonitorEnds ==
    /\ pc = "monitor"
    /\ return_code' = code_of_states(states)
    /\ pc' = "fetch_logs"
    /\ UNCHANGED <<args, answers, session, history, archs, calls, monitoring, logs, artifacts, result>>

\* resume_command leaving the id out
resume_command_bare(id) == [recover |-> TRUE, build_id |-> <<>>]

\* resume_command of the TimeoutError handler: --recover, and --build-id
\* when build_id is not empty
resume_command_of(id) ==
    IF id # <<>>
    THEN [recover |-> TRUE, build_id |-> id]
    ELSE [recover |-> TRUE, build_id |-> <<>>]

\* monitor_builds raises TimeoutError: _monitor_and_complete returns 75
MonitorTimesOut ==
    /\ pc = "monitor"
    /\ resume_command' = resume_command_of(build_id)
    /\ event' = [type |-> "TimeoutError", at |-> "monitor_builds"]
    /\ calls' = calls \o final_calls(TIMEOUT_CODE)
    /\ outcome' = "returned"
    /\ returncode' = TIMEOUT_CODE
    /\ pc' = "done"
    /\ UNCHANGED <<args, answers, history, archs, monitoring, retrieval, raised,
                   build_id, resumed_with>>

\* FetchLogs returning at once when no log was downloaded
FetchLogs_giving_up ==
    /\ pc = "fetch_logs"
    /\ \E lg \in LogResults :
        /\ logs' = lg
        /\ return_code' = code_after_logs(return_code, lg)
        /\ IF DOMAIN lg = {}
           THEN /\ calls' = Append(calls, "fetch_logs") \o final_calls(GENERAL_ERROR)
                /\ outcome' = "returned"
                /\ returncode' = GENERAL_ERROR
                /\ pc' = "done"
                /\ UNCHANGED <<event, raised>>
           ELSE /\ calls' = Append(calls, "fetch_logs")
                /\ pc' = "fetch_artifacts"
                /\ UNCHANGED result
    /\ UNCHANGED <<args, answers, session, history, archs, monitoring, artifacts>>

\* logs = builder.fetch_logs(Path.cwd())
FetchLogs ==
    /\ pc = "fetch_logs"
    /\ calls' = Append(calls, "fetch_logs")
    /\ \E lg \in LogResults :
        /\ logs' = lg
        /\ return_code' = code_after_logs(return_code, lg)
    /\ pc' = "fetch_artifacts"
    /\ UNCHANGED <<args, answers, session, history, archs, monitoring, artifacts, result>>

\* artifacts = builder.fetch_artifacts(Path.cwd()); _monitor_and_complete
\* returns return_code and _run ends
FetchArtifacts ==
    /\ pc = "fetch_artifacts"
    /\ \E arts \in ArtifactResults :
        LET code == code_after_artifacts(return_code, arts)
        IN /\ artifacts' = arts
           /\ return_code' = code
           /\ calls' = Append(calls, "fetch_artifacts") \o final_calls(code)
           /\ returncode' = code
    /\ outcome' = "returned"
    /\ pc' = "done"
    /\ UNCHANGED <<args, answers, session, history, archs, monitoring, logs, event, raised>>

\* an error other than the timeout of the loop and the interrupt leaves
\* _monitor_and_complete: `except Exception` of _run
MonitorFails ==
    /\ pc \in {"monitor", "fetch_logs", "fetch_artifacts"}
    /\ \E type \in (IF pc = "monitor" THEN MonitorErrors ELSE FetchErrors) :
        event' = [type |-> type, at |-> current_call]
    /\ calls' = calls_at_event \o final_calls(GENERAL_ERROR)
    /\ outcome' = "returned"
    /\ returncode' = GENERAL_ERROR
    /\ pc' = "done"
    /\ UNCHANGED <<args, answers, session, history, archs, monitoring, retrieval, raised>>

\* the operator interrupts _monitor_and_complete: `except KeyboardInterrupt`
\* of _run asks "Cancel builds?"
Interrupt ==
    /\ pc \in {"monitor", "fetch_logs", "fetch_artifacts"}
    /\ \E answer \in BOOLEAN :
        /\ event' = [type |-> "KeyboardInterrupt", at |-> current_call,
                     cancel |-> answer]
        /\ calls' = calls_at_event \o interrupt_calls(answer)
    /\ outcome' = "returned"
    /\ returncode' = EX_OK
    /\ pc' = "done"
    /\ UNCHANGED <<args, answers, session, history, archs, monitoring, retrieval, raised>>

----------------------------------------------------------------------------
Next ==
    \/ Validate
    \/ GetArchs
    \/ ResumeBuilds
    \/ ResumeFails
    \/ StartBuilds
    \/ StartFails
    \/ MonitorBuilds
    \/ Snapshot
    \/ MonitorEnds
    \/ MonitorTimesOut
    \/ FetchLogs
    \/ FetchArtifacts
    \/ MonitorFails
    \/ Interrupt

Spec == Init /\ [][Next]_vars

----------------------------------------------------------------------------
(* Validation and resolution alone, over longer --build-for lists: the run *)
(* up to the point where it submits or resumes                             *)

InitResolve == Entered(Entries, MaxFilter, BuildInfo, MaxPlan)

NextResolve ==
    \/ Validate
    \/ GetArchs

ResolveSpec == InitResolve /\ [][NextResolve]_vars

----------------------------------------------------------------------------
(* Validation alone, over longer build plans *)

InitPlan == Entered(RunEntries, MaxRunFilter, BuildInfo, MaxLongPlan)

NextPlan == Validate

PlanSpec == InitPlan /\ [][NextPlan]_vars

----------------------------------------------------------------------------
(* The command run several times on one machine, on projects that pass    *)
(* validation: what a later run derives against what an earlier one printed *)

ProjectNames == {"hello", "world"}
ProjectDirs == {"/work/hello", "/work/copy"}

\* _run is entered with any --recover, --build-id, project name and directory
EnteredSession ==
    /\ recover \in BOOLEAN
    /\ build_id_arg \in BuildIdArgs
    /\ project_name \in ProjectNames
    /\ project_dir \in ProjectDirs
    /\ accept_public = TRUE
    /\ project = FALSE
    /\ declares = FALSE
    /\ build_plan = <<>>
    /\ build_fors = <<>>
    /\ Fresh

InitSession ==
    /\ EnteredSession
    /\ runs = 1
    /\ earlier = NoEarlierRun

\* the run is over and the command is started again
Restart ==
    /\ pc = "done"
    /\ runs < MaxRuns
    /\ runs' = runs + 1
    /\ earlier' = [name |-> project_name, dir |-> project_dir,
                   build_id |-> build_id, resume_command |-> resume_command]
    /\ recover' \in BOOLEAN
    /\ build_id_arg' \in BuildIdArgs
    /\ project_name' \in ProjectNames
    /\ project_dir' \in ProjectDirs
    /\ is_private' = "unasked"
    /\ confirmed' = "unasked"
    /\ pc' = "validate"
    /\ archs' = <<>>
    /\ calls' = <<>>
    /\ states' = <<>>
    /\ ticks' = 0
    /\ failed_seen' = FALSE
    /\ buckets' = NoBuckets
    /\ progress_parts' = <<>>
    /\ emitted' = 0
    /\ return_code' = 0
    /\ logs' = <<>>
    /\ artifacts' = <<>>
    /\ event' = NoEvent
    /\ outcome' = "running"
    /\ returncode' = 0
    /\ raised' = NoError
    /\ build_id' = <<>>
    /\ resumed_with' = <<>>
    /\ resume_command' = NoCommand
    /\ UNCHANGED <<accept_public, project, declares, build_plan, build_fors>>

NextSession ==
    \/ Next
    \/ Restart

SessionSpec == InitSession /\ [][NextSession]_vars

----------------------------------------------------------------------------
(* Properties *)

Invoked(op) == op \in Range(calls)

Count(op) == Cardinality({i \in 1..Len(calls) : calls[i] = op})

Done == pc = "done"

\* the run ended on the event of that type raised by one of those calls
EndedOn(types, ats) == Done /\ event.type \in types /\ event.at \in ats

MonitorCalls == {"monitor_builds", "fetch_logs", "fetch_artifacts"}

\* C1: when monitor_builds raises the local timeout, the run returns 75 and
\* has invoked neither cleanup nor cancel_builds nor fetch_logs nor
\* fetch_artifacts.
C1_TimeoutLeavesSession ==
    EndedOn({"TimeoutError"}, {"monitor_builds"}) =>
        /\ outcome = "returned"
        /\ returncode = 75
        /\ ~Invoked("cleanup")
        /\ ~Invoked("cancel_builds")
        /\ ~Invoked("fetch_logs")
        /\ ~Invoked("fetch_artifacts")

\* the timeout is raised after two snapshots
C1_Witness ==
    /\ EndedOn({"TimeoutError"}, {"monitor_builds"})
    /\ ticks = 2

\* C2: when start_builds fails with the conflict, cleanup is invoked exactly
\* once, the run returns 75, nothing is raised, and monitor_builds,
\* fetch_logs, fetch_artifacts and cancel_builds are never invoked.
C2_ConflictCleansUp ==
    EndedOn({"Conflict"}, {"start_builds"}) =>
        /\ Count("cleanup") = 1
        /\ outcome = "returned"
        /\ returncode = EX_TEMPFAIL
        /\ raised = NoError
        /\ ~Invoked("monitor_builds")
        /\ ~Invoked("fetch_logs")
        /\ ~Invoked("fetch_artifacts")
        /\ ~Invoked("cancel_builds")

C2_Witness ==
    /\ EndedOn({"Conflict"}, {"start_builds"})
    /\ calls = <<"start_builds", "cleanup">>

C4_InterruptAsksBeforeCancel ==
    EndedOn({"KeyboardInterrupt"}, MonitorCalls) =>
        /\ outcome = "returned"
        /\ returncode = 0
        /\ IF event.cancel
           THEN /\ Count("cancel_builds") = 1
                /\ Count("cleanup") = 1
                /\ Len(calls) >= 2
                /\ calls[Len(calls) - 1] = "cancel_builds"
                /\ calls[Len(calls)] = "cleanup"
           ELSE /\ ~Invoked("cancel_builds")
                /\ ~Invoked("cleanup")

\* the operator interrupts fetch_logs and confirms
C4_Witness ==
    /\ EndedOn({"KeyboardInterrupt"}, {"fetch_logs"})
    /\ event.cancel
    /\ Invoked("cancel_builds")

\* C5: an error other than the timeout of the monitoring loop and the
\* interrupt, raised while monitoring or fetching logs or artifacts, is not
\* raised further: the run returns 1 and cleanup is invoked exactly once.
C5_ErrorsBecomeGeneralError ==
    ( /\ EndedOn(FetchErrors, MonitorCalls)
      /\ ~EndedOn({"TimeoutError"}, {"monitor_builds"}) ) =>
        /\ outcome = "returned"
        /\ raised = NoError
        /\ returncode = 1
        /\ Count("cleanup") = 1

\* fetch_artifacts raises after the logs were fetched
C5_Witness ==
    /\ EndedOn({"OtherError"}, {"fetch_artifacts"})
    /\ Invoked("fetch_logs")
    /\ returncode = 1

\* _monitor_and_complete returned after the monitoring loop ended normally
\* and both fetches returned
NormalEnd == Done /\ event = NoEvent /\ outcome = "returned"

\* at least one architecture has a log path
LogRetrieved == \E a \in DOMAIN logs : logs[a] = "path"

ArtifactRetrieved == Len(artifacts) > 0

FinalFailed == \E a \in DOMAIN states : states[a] = "FAILED"

AllSucceeded == \A a \in DOMAIN states : states[a] = "SUCCESS"

\* C6: after monitoring ended normally the exit code comes from the latest
\* snapshot only: it is 1 when some architecture of it is FAILED, and 0
\* when none is and logs and artifacts were retrieved, whatever earlier
\* snapshots held; cleanup is invoked (once) in both cases.
C6_OutcomeFromFinalSnapshot ==
    NormalEnd =>
        /\ FinalFailed => returncode = 1
        /\ (~FinalFailed /\ LogRetrieved /\ ArtifactRetrieved) => returncode = 0
        /\ Count("cleanup") = 1
        /\ calls[Len(calls)] = "cleanup"

\* an earlier snapshot held a FAILED architecture, the final one holds none,
\* and the run returns 0
C6_Witness ==
    /\ NormalEnd
    /\ failed_seen
    /\ ~FinalFailed
    /\ DOMAIN states # {}
    /\ returncode = 0

\* C7 as stated: after monitoring ended normally, the run returns 1 when no
\* architecture has a log path (the mapping is empty or holds only absent
\* values) or when no artifact was returned.
C7_NoLogOrArtifactFails ==
    (NormalEnd /\ (~LogRetrieved \/ ~ArtifactRetrieved)) => returncode = 1

\* C8 as stated: a run that ended normally with exit code 0 has every
\* architecture of the final snapshot in SUCCESS, at least one log and at
\* least one artifact retrieved, and cleanup invoked.
C8_ZeroMeansAllSucceeded ==
    (NormalEnd /\ returncode = 0) =>
        /\ AllSucceeded
        /\ LogRetrieved
        /\ ArtifactRetrieved
        /\ Invoked("cleanup")

\* _validate passed and _get_archs returned
Resolved == pc = "submit"

\* _validate passed and _get_archs raised EmptyBuildPlanError
ResolutionFailed == Done /\ raised = EmptyBuildPlanError

\* the build-for values of the plan equal to an entry, in plan order
Matches(plan, entry) ==
    SelectSeq([i \in 1..Len(plan) |-> plan[i].build_for], LAMBDA b : b = entry)

\* the matches of every entry of the list, in list order
RECURSIVE Accumulated(_, _)
Accumulated(plan, fors) ==
    IF fors = <<>> THEN <<>>
    ELSE Matches(plan, Head(fors)) \o Accumulated(plan, Tail(fors))

\* C9: when the project declares its targets: if --build-for is given and
\* none of its entries is the build-for of a target of the plan, resolution
\* fails with EmptyBuildPlanError; if --build-for is empty, resolution
\* returns the build-for values of the plan, in plan order.
C9_FilterSelectsNothingOrAll ==
    (declares /\ (Resolved \/ ResolutionFailed)) =>
        /\ ( /\ build_fors # <<>>
             /\ \A i \in 1..Len(build_fors) : Matches(build_plan, build_fors[i]) = <<>> )
           => ResolutionFailed
        /\ build_fors = <<>> =>
            /\ Resolved
            /\ archs = [i \in 1..Len(build_plan) |-> build_plan[i].build_for]

\* two entries, neither matching a plan that is not empty
C9_Witness ==
    /\ declares
    /\ ResolutionFailed
    /\ Len(build_fors) = 2
    /\ build_plan # <<>>

\* C10 as stated: when the project declares its targets and --build-for is
\* given, resolution returns the matches accumulated over all entries and
\* fails with EmptyBuildPlanError only when that accumulation is empty.
C10_FilterAccumulates ==
    (declares /\ build_fors # <<>> /\ (Resolved \/ ResolutionFailed)) =>
        IF Accumulated(build_plan, build_fors) = <<>>
        THEN ResolutionFailed
        ELSE Resolved /\ archs = Accumulated(build_plan, build_fors)

\* C11: when the project declares no targets, resolution never fails and
\* never filters: it returns --build-for as given when it is not empty, and
\* the list holding the host architecture alone otherwise, whatever the
\* build plan is.
C11_UndeclaredUsesOverrideVerbatim ==
    (~declares /\ (Resolved \/ ResolutionFailed)) =>
        /\ Resolved
        /\ archs = IF build_fors # <<>> THEN build_fors ELSE <<"amd64">>

\* two entries are returned as given although the plan holds neither
C11_Witness ==
    /\ ~declares
    /\ Resolved
    /\ archs = <<"all", "amd64">>
    /\ build_plan = <<[build_on |-> "arm64", build_for |-> "arm64"]>>

\* _validate has run
Validated == pc # "validate"

\* the public upload was acknowledged: by the flag, by a private project,
\* or by the operator
Acknowledged ==
    \/ accept_public
    \/ (project /\ is_private = "yes")
    \/ confirmed = "yes"

Catalog == {"amd64", "arm64", "all"}

\* the places of --build-for that hold an entry outside the catalog
BadPlaces == {i \in 1..Len(build_fors) : build_fors[i] \notin Catalog}

FirstBadPlace == CHOOSE i \in BadPlaces : \A j \in BadPlaces : i <= j

\* C12: once the upload is acknowledged, if some entry of --build-for is
\* neither a supported architecture nor "all", validation fails with the
\* config exit code, names the first such entry and lists the supported
\* architectures; if every entry is one, the catalog check raises nothing.
C12_UnsupportedArchRejected ==
    (Validated /\ Acknowledged) =>
        IF BadPlaces # {}
        THEN /\ Done
             /\ outcome = "raised"
             /\ raised.type = "RemoteBuildError"
             /\ raised.retcode = 78
             /\ raised.names = <<build_fors[FirstBadPlace]>>
             /\ raised.supported = {"amd64", "arm64"}
        ELSE "supported" \notin DOMAIN raised

\* two different unsupported entries: the first one is named
C12_Witness ==
    /\ Validated
    /\ Acknowledged
    /\ build_fors = <<"sparc", "mips">>
    /\ raised.names = <<"sparc">>

\* the BuildInfos of the plan that build on the given architecture
Group(on) == SelectSeq(build_plan, LAMBDA b : b.build_on = on)

\* the build-for values of a group, in plan order
GroupFors(on) == [i \in 1..Len(Group(on)) |-> Group(on)[i].build_for]

\* the build-on values that two BuildInfos of the plan share
SharedBuildOns == {on \in {"amd64", "arm64"} : Len(Group(on)) > 1}

\* the raised error names each shared build-on once, with all its build-fors
NamesEveryConflict ==
    /\ Len(raised.names) = Cardinality(SharedBuildOns)
    /\ \A on \in SharedBuildOns :
           \E k \in 1..Len(raised.names) :
               /\ raised.names[k].build_on = on
               /\ raised.names[k].build_fors = GroupFors(on)

\* C13 as stated: whenever two BuildInfos of the plan share a build-on,
\* validation fails with the config exit code and names every conflict.
C13_SharedBuildOnAlwaysConfig ==
    (Validated /\ SharedBuildOns # {}) =>
        /\ Done
        /\ outcome = "raised"
        /\ raised.retcode = 78
        /\ NamesEveryConflict

\* C13: once the upload is acknowledged and every --build-for entry is in
\* the catalog, a plan in which two BuildInfos share a build-on makes
\* validation fail with the config exit code, and the one error raised names
\* every shared build-on together with all of its build-for values.
C13_SharedBuildOnRejected ==
    (Validated /\ Acknowledged /\ BadPlaces = {} /\ SharedBuildOns # {}) =>
        /\ Done
        /\ outcome = "raised"
        /\ raised.type = "RemoteBuildError"
        /\ raised.retcode = 78
        /\ NamesEveryConflict

\* two build-ons are shared at once and the error names both
C13_Witness ==
    /\ Validated
    /\ Acknowledged
    /\ BadPlaces = {}
    /\ SharedBuildOns = {"amd64", "arm64"}
    /\ Len(raised.names) = 2

\* some build-on group holds two different build-for values
DistinctBuildFors ==
    \E on \in {"amd64", "arm64"} :
        \E i, j \in 1..Len(GroupFors(on)) : GroupFors(on)[i] # GroupFors(on)[j]

\* C14 as stated: the build-target check fails exactly when some build-on
\* group has more than one distinct build-for value.
C14_FailsOnDistinctBuildFors ==
    (Validated /\ Acknowledged /\ BadPlaces = {}) =>
        (Done <=> DistinctBuildFors)

\* C14: the build-target check fails exactly when some build-on group holds
\* more than one BuildInfo, a repeated build-for value included; a plan in
\* which every build-on appears once passes.
C14_FailsOnSharedBuildOn ==
    (Validated /\ Acknowledged /\ BadPlaces = {}) =>
        (Done <=> SharedBuildOns # {})

\* the same target listed twice is rejected
C14_Witness ==
    /\ Validated
    /\ Acknowledged
    /\ BadPlaces = {}
    /\ build_plan = <<[build_on |-> "amd64", build_for |-> "amd64"],
                      [build_on |-> "amd64", build_for |-> "amd64"]>>
    /\ Done
    /\ raised.retcode = 78

\* C15: start_builds is invoked only when the public upload was acknowledged
\* by the flag, by a given project the client reports private, or by a yes
\* to the prompt; when none of these holds the run fails with the permission
\* exit code and invokes no client operation.
C15_StartOnlyWhenAcknowledged ==
    /\ Invoked("start_builds") => Acknowledged
    /\ (Validated /\ ~Acknowledged) =>
           /\ Done
           /\ outcome = "raised"
           /\ raised.type = "RemoteBuildError"
           /\ raised.retcode = 77
           /\ calls = <<>>

\* a public project is given and the operator answers no
C15_Witness ==
    /\ ~accept_public
    /\ project
    /\ is_private = "no"
    /\ confirmed = "no"
    /\ Done
    /\ raised.retcode = 77
    /\ calls = <<>>

\* the run before this one was on the same project in the same directory
SameProjectAsEarlier ==
    /\ runs > 1
    /\ earlier.name = project_name
    /\ earlier.dir = project_dir

BucketNames == {"not_building", "building", "uploading", "succeeded", "pending"}

\* C17: the classification of a snapshot puts each of its architectures in
\* exactly one of the five sets and nothing else in any of them: RUNNING in
\* building, SUCCESS in succeeded, UPLOADING in uploading, PENDING in pending,
\* every other state in stopped.
C17_ClassificationPartitions ==
    /\ \A name \in BucketNames : buckets[name] \subseteq DOMAIN states
    /\ \A arch \in DOMAIN states :
        /\ Cardinality({name \in BucketNames : arch \in buckets[name]}) = 1
        /\ states[arch] = "RUNNING" => arch \in buckets.building
        /\ states[arch] = "SUCCESS" => arch \in buckets.succeeded
        /\ states[arch] = "UPLOADING" => arch \in buckets.uploading
        /\ states[arch] = "PENDING" => arch \in buckets.pending
        /\ states[arch] \in {"FAILED", "CANCELLED"} => arch \in buckets.not_building

\* one architecture uploads while the other was cancelled
C17_Witness ==
    /\ ticks > 0
    /\ DOMAIN states = {"amd64", "arm64"}
    /\ states["amd64"] = "UPLOADING"
    /\ states["arm64"] = "CANCELLED"
    /\ buckets.uploading = {"amd64"}
    /\ buckets.not_building = {"arm64"}

\* the labels of the progress line, in their fixed order
Labels == <<"Stopped", "Building", "Uploading", "Succeeded", "Pending">>

\* the architectures of the last snapshot a label stands for
Labelled(label) ==
    {arch \in DOMAIN states :
        \/ label = "Stopped" /\ states[arch] \in {"FAILED", "CANCELLED"}
        \/ label = "Building" /\ states[arch] = "RUNNING"
        \/ label = "Uploading" /\ states[arch] = "UPLOADING"
        \/ label = "Succeeded" /\ states[arch] = "SUCCESS"
        \/ label = "Pending" /\ states[arch] = "PENDING"}

\* a comes before b in alphabetical order
Alphabetical(a, b) ==
    \E i, j \in 1..Len(ArchOrder) :
        i < j /\ ArchOrder[i] = a /\ ArchOrder[j] = b

\* C18: one progress line is emitted per snapshot; the line has one part for
\* each non-empty set and none for an empty one, in the order stopped,
\* building, uploading, succeeded, pending, and each part lists the
\* architectures of its set in sorted order.
C18_ProgressLinePerSnapshot ==
    /\ emitted = ticks
    /\ Len(progress_parts) = Len(SelectSeq(Labels, LAMBDA l : Labelled(l) # {}))
    /\ \A k \in 1..Len(progress_parts) :
        LET part == progress_parts[k]
        IN /\ part.label = SelectSeq(Labels, LAMBDA l : Labelled(l) # {})[k]
           /\ Range(part.archs) = Labelled(part.label)
           /\ \A i, j \in 1..Len(part.archs) :
                  i < j => Alphabetical(part.archs[i], part.archs[j])

\* two architectures resolved in the order arm64, amd64 are both building
\* and the line lists them sorted
C18_Witness ==
    /\ ticks = 2
    /\ emitted = 2
    /\ archs = <<"arm64", "amd64">>
    /\ Len(progress_parts) = 1
    /\ progress_parts[1].label = "Building"
    /\ progress_parts[1].archs = <<"amd64", "arm64">>

\* _run raised out of _validate or out of _get_archs
FailedBeforeSubmission == Done /\ outcome = "raised" /\ event = NoEvent

\* C19: start_builds, resume_builds and monitor_builds are invoked only when
\* the upload was acknowledged, every --build-for entry is in the catalog, no
\* two targets share a build-on and resolution kept an architecture of the
\* plan; a run that fails validation or fails with EmptyBuildPlanError
\* invokes no client operation.
C19_NoSubmissionBeforeValidation ==
    /\ (\E op \in {"start_builds", "resume_builds", "monitor_builds"} : Invoked(op)) =>
           /\ Acknowledged
           /\ BadPlaces = {}
           /\ SharedBuildOns = {}
           /\ (declares /\ build_fors # <<>>) =>
                  Accumulated(build_plan, build_fors) # <<>>
           /\ raised # EmptyBuildPlanError
    /\ (Validated /\ (~Acknowledged \/ BadPlaces # {} \/ SharedBuildOns # {})) =>
           FailedBeforeSubmission
    /\ FailedBeforeSubmission => calls = <<>>

\* validation passes, resolution filters the plan to nothing, and no client
\* operation is invoked
C19_Witness ==
    /\ Acknowledged
    /\ BadPlaces = {}
    /\ SharedBuildOns = {}
    /\ ResolutionFailed
    /\ FailedBeforeSubmission
    /\ calls = <<>>

\* C20: a run with --recover never invokes start_builds; once validation
\* and resolution have passed it invokes resume_builds once, with the id
\* derived from the project, and monitoring follows when that returns. A run
\* without --recover never invokes resume_builds. No run invokes both, or
\* either one twice.
C20_RecoverResumesInsteadOfStarting ==
    /\ recover => ~Invoked("start_builds")
    /\ ~recover => ~Invoked("resume_builds")
    /\ Count("start_builds") + Count("resume_builds") <= 1
    /\ Invoked("resume_builds") =>
           /\ calls[1] = "resume_builds"
           /\ resumed_with = <<"snapcraft", project_name, project_dir>>
    /\ (recover /\ Done /\ ~FailedBeforeSubmission) =>
           /\ Count("resume_builds") = 1
           /\ event.at # "resume_builds" =>
                  (Len(calls) >= 2 /\ calls[2] = "monitor_builds")

\* a --recover run resumed the session and monitored it to a normal end
C20_Witness ==
    /\ recover
    /\ Done
    /\ outcome = "returned"
    /\ event = NoEvent
    /\ SubSeq(calls, 1, 2) = <<"resume_builds", "monitor_builds">>
    /\ resumed_with = <<"snapcraft", "hello", "/work/hello">>

\* C21: cancel_builds is invoked only when the operator interrupted
\* monitoring or retrieval and answered yes to the cancellation prompt, and
\* then once; a timeout, a submission conflict, a submission failure, an
\* unexpected error or a normal completion never invokes it.
C21_CancelOnlyOnConfirmedInterrupt ==
    /\ Invoked("cancel_builds") =>
           /\ event.type = "KeyboardInterrupt"
           /\ event.at \in MonitorCalls
           /\ event.cancel
           /\ Count("cancel_builds") = 1
    /\ (Done /\ event.type # "KeyboardInterrupt") => ~Invoked("cancel_builds")

\* the operator interrupts fetch_artifacts and confirms the cancellation
C21_Witness ==
    /\ EndedOn({"KeyboardInterrupt"}, {"fetch_artifacts"})
    /\ event.cancel
    /\ Count("cancel_builds") = 1
    /\ Invoked("fetch_logs")

\* C23: cleanup is invoked at most once in a run, and when it is invoked it
\* is the last client operation of the run.
C23_CleanupOnceAndLast ==
    /\ Count("cleanup") <= 1
    /\ Invoked("cleanup") =>
           /\ calls[Len(calls)] = "cleanup"
           /\ Done

\* cleanup closes a run that cancelled its builds during monitoring
C23_Witness ==
    /\ EndedOn({"KeyboardInterrupt"}, {"monitor_builds"})
    /\ Len(calls) = 4
    /\ calls[3] = "cancel_builds"
    /\ calls[4] = "cleanup"

\* C25: when resume_builds fails, the error leaves the run as it was raised,
\* no exit code is returned, and resume_builds is the only client operation
\* of the run: neither cleanup nor cancel_builds is invoked.
C25_ResumeFailurePropagates ==
    event.at = "resume_builds" =>
        /\ recover
        /\ Done
        /\ outcome = "raised"
        /\ raised = [type |-> event.type]
        /\ ~Invoked("cleanup")
        /\ ~Invoked("cancel_builds")
        /\ calls = <<"resume_builds">>

\* resume_builds raises a LaunchpadError
C25_Witness ==
    /\ recover
    /\ EndedOn({"LaunchpadError"}, {"resume_builds"})
    /\ raised.type = "LaunchpadError"
    /\ calls = <<"resume_builds">>

\* the place of the first invocation of an operation in calls
PlaceOf(op) == CHOOSE i \in 1..Len(calls) : calls[i] = op

\* C22: fetch_logs is invoked only right after a monitor_builds that ended
\* without raising, and fetch_artifacts only right after fetch_logs; a run
\* whose monitoring ended normally and whose retrieval no error or interrupt
\* cut short has invoked both, each once, whatever the last snapshot and the
\* fetched logs are.
C22_FetchesFollowNormalEnd ==
    /\ pc = "monitor" => (~Invoked("fetch_logs") /\ ~Invoked("fetch_artifacts"))
    /\ Invoked("fetch_logs") =>
           /\ Count("fetch_logs") = 1
           /\ PlaceOf("fetch_logs") > 1
           /\ calls[PlaceOf("fetch_logs") - 1] = "monitor_builds"
           /\ event.at # "monitor_builds"
    /\ Invoked("fetch_artifacts") =>
           /\ Count("fetch_artifacts") = 1
           /\ PlaceOf("fetch_artifacts") > 1
           /\ calls[PlaceOf("fetch_artifacts") - 1] = "fetch_logs"
    /\ (Done /\ event = NoEvent /\ Invoked("monitor_builds")) =>
           (Invoked("fetch_logs") /\ Invoked("fetch_artifacts"))

\* an architecture failed in the snapshot before the last and in the last
\* one, no log was downloaded, and both fetches were made
C22_Witness ==
    /\ Done
    /\ event = NoEvent
    /\ ticks = 2
    /\ failed_seen
    /\ FinalFailed
    /\ logs = <<>>
    /\ Invoked("fetch_logs")
    /\ Invoked("fetch_artifacts")

\* C24: for a project that declares its targets, the architecture list that
\* resolution returns, which start_builds is given, never holds the same
\* architecture twice.
C24_ArchsHoldNoDuplicate ==
    (Resolved /\ declares) =>
        \A i, j \in 1..Len(archs) : i # j => archs[i] # archs[j]

====
